---- MODULE Spec2Model ----
(***************************************************************************)
(* Friend-relationship handlers of src/server.js (Express + Mongoose).     *)
(*                                                                         *)
(* The store holds the User collection (friends, incomingRequests,         *)
(* outgoingRequests arrays) and the FriendRequest collection.  Every       *)
(* handler is an async function: the code between two awaits runs          *)
(* atomically, and other requests interleave at each await.  calls is the  *)
(* bag of the HTTP requests in flight, each with its position (pc), its    *)
(* arguments and the documents it has loaded; response is the answer sent  *)
(* by the latest step.                                                     *)
(*                                                                         *)
(* server.js registers POST /api/friend-request, PUT                       *)
(* /api/friend-request/:requestId and GET /api/friend-requests/:userId     *)
(* twice.  Spec and SpecFail are the server as Express dispatches it (the   *)
(* handler registered first answers and never calls next()): Spec with     *)
(* requests that overlap, SpecFail with one request at a time, ids in any  *)
(* spelling and store accesses that may fail.  SpecArray and SpecArrayFail *)
(* are the same two environments with the array-based handlers of lines    *)
(* 336-466 taken as the mounted ones.                                      *)
(***************************************************************************)
EXTENDS Integers, Sequences, FiniteSets, Bags

\* Bounds of the model.
MaxUsers == 2
MaxCalls == 2
MaxRequests == 2

UserIds == 1..MaxUsers
RequestIds == 1..MaxRequests
\* A well-formed ObjectId that belongs to no user document.
Ghost == MaxUsers + 1

VARIABLES users, friendRequests, nextRequestId, calls, response

vars == <<users, friendRequests, nextRequestId, calls, response>>

store == <<users, friendRequests, nextRequestId>>

(***************************************************************************)
(* Identifiers.  A stored ObjectId is a number.  A request carries ids as  *)
(* strings of 24 hex digits; Mongoose casts such a string to an ObjectId   *)
(* whatever the case of its letters, and ObjectId.toString() gives the     *)
(* lower-case spelling.  upper tells whether the letters of the string are  *)
(* in upper case (an id is taken to have a letter among its 24 digits);    *)
(* hex = 0 is an absent (undefined) value.                                 *)
(***************************************************************************)
IdStr(id, upper) == [hex |-> id, upper |-> upper]

Undefined == IdStr(0, FALSE)

CastId(s) == s.hex

toString(id) == IdStr(id, FALSE)

Falsy(s) == s.hex = 0

\* Array.prototype.includes on a MongooseArray of ObjectIds: the argument is cast.
Includes(arr, id) == \E i \in DOMAIN arr : arr[i] = id

\* arr.filter(id => id.toString() !== s): the comparison is on strings.
FilterOut(arr, s) == SelectSeq(arr, LAMBDA e : toString(e) # s)

\* arr.some(id => id.toString() === other._id.toString())
SomeEquals(arr, id) == \E i \in DOMAIN arr : toString(arr[i]) = toString(id)

\* MongoDB $addToSet
AddToSet(arr, id) == IF Includes(arr, id) THEN arr ELSE Append(arr, id)

Count(arr, id) == Cardinality({i \in DOMAIN arr : arr[i] = id})

(***************************************************************************)
(* Documents.                                                              *)
(***************************************************************************)
NoDoc ==
    [found |-> FALSE, id |-> 0, friends |-> <<>>,
     incomingRequests |-> <<>>, outgoingRequests |-> <<>>]

\* new User({ name, email, password }): the three arrays default to [].
userSchema(id) ==
    [found |-> TRUE, id |-> id, friends |-> <<>>,
     incomingRequests |-> <<>>, outgoingRequests |-> <<>>]

NoRequest == [found |-> FALSE, fromUser |-> 0, toUser |-> 0, status |-> ""]

\* new FriendRequest({ fromUser, toUser }): status defaults to 'pending'.
friendRequestSchema(fromUser, toUser) ==
    [found |-> TRUE, fromUser |-> CastId(fromUser), toUser |-> CastId(toUser),
     status |-> "pending"]

StatusEnum == {"pending", "accepted", "rejected"}

\* User.findById(id)
FindById(id) == IF id \in UserIds THEN users[id] ELSE NoDoc

\* FriendRequest.findById(requestId)
FindRequestById(requestId) ==
    IF requestId \in RequestIds THEN friendRequests[requestId] ELSE NoRequest

\* FriendRequest.findOne({ fromUser, toUser, status: 'pending' })
FindPendingRequest(fromUser, toUser) ==
    \E r \in RequestIds :
        /\ friendRequests[r].found
        /\ friendRequests[r].fromUser = CastId(fromUser)
        /\ friendRequests[r].toUser = CastId(toUser)
        /\ friendRequests[r].status = "pending"

(***************************************************************************)
(* Calls (HTTP requests in flight).                                        *)
(***************************************************************************)
NoIO == [sender |-> "none", receiver |-> "none"]

BothIO == [sender |-> "pending", receiver |-> "pending"]

Fresh == [sender |-> FALSE, receiver |-> FALSE]

\* The template of a call.  race is bookkeeping of a sendRequest call's history:
\* "none" when the status of its pair was none as it arrived, "lost" once another
\* call for the same pair that arrived so and overlapped it has answered with
\* success.  For a resolveRequest call it is "none" when the request was
\* pending as the call loaded it.
Idle ==
    [op |-> "idle", pc |-> "done", fromUser |-> Undefined, toUser |-> Undefined,
     status |-> "", requestId |-> 0, sender |-> NoDoc, receiver |-> NoDoc,
     request |-> NoRequest, modified |-> FALSE, reads |-> NoIO, saves |-> NoIO,
     stale |-> Fresh, responded |-> FALSE, race |-> ""]

NoResponse == [code |-> 0, message |-> ""]

Running == BagToSet(calls)

Room == BagCardinality(calls) < MaxCalls

One(call) == SetToBag({call})

RECURSIVE Copies(_, _)
Copies(B, S) ==
    IF S = {} THEN 0
    ELSE LET x == CHOOSE y \in S : TRUE IN B[x] + Copies(B, S \ {x})

\* The ids a client can name.  UserInputs: the ids of the users that exist, as
\* the server prints them.  IdInputs: these in either spelling, an id of no user
\* and an absent value.
Existing == {u \in UserIds : users[u].found}

UserInputs == {toString(u) : u \in Existing}

IdInputs ==
    {Undefined} \cup {IdStr(u, b) : u \in Existing \cup {Ghost}, b \in BOOLEAN}

(***************************************************************************)
(* The relationship of a pair as the store shows it.                       *)
(***************************************************************************)
Lists(a, b) == a \in UserIds /\ Includes(users[a].friends, b)

PendingRecord(a, b) ==
    \E r \in RequestIds :
        /\ friendRequests[r].found
        /\ friendRequests[r].fromUser = a
        /\ friendRequests[r].toUser = b
        /\ friendRequests[r].status = "pending"

PendingArray(a, b) ==
    \/ a \in UserIds /\ Includes(users[a].outgoingRequests, b)
    \/ b \in UserIds /\ Includes(users[b].incomingRequests, a)

Pending(a, b) == PendingRecord(a, b) \/ PendingArray(a, b)

AreFriends(a, b) == Lists(a, b) \/ Lists(b, a)

PairStatus(a, b) ==
    IF AreFriends(a, b) THEN "friends"
    ELSE IF Pending(a, b) \/ Pending(b, a) THEN "pending"
    ELSE "none"

SamePair(x, y) ==
    /\ x.op = y.op
    /\ CastId(x.fromUser) = CastId(y.fromUser)
    /\ CastId(x.toUser) = CastId(y.toUser)

\* A call comes into flight.  It does so as its first store access completes:
\* between its arrival and that moment it has neither read nor written anything.
Enter(call) ==
    /\ calls' = calls (+) One(
        [call EXCEPT !.race =
            IF \/ /\ call.op \in {"sendRequest", "sendRequestArray"}
                  /\ PairStatus(CastId(call.fromUser), CastId(call.toUser)) = "none"
               \/ /\ call.op = "resolveRequest"
                  /\ FindRequestById(call.requestId).status = "pending"
            THEN "none" ELSE ""])
    /\ response' = NoResponse

\* The other calls (the bag rest) once call has answered with code.
Lose(rest, call, code) ==
    LET F(x) == IF /\ code = 201 /\ SamePair(x, call) /\ call.race # "" /\ x.race # ""
                THEN [x EXCEPT !.race = "lost"] ELSE x
    IN [y \in {F(x) : x \in DOMAIN rest} |->
            Copies(rest, {x \in DOMAIN rest : F(x) = y})]

\* res.status(code).json({ message }) as the last thing the call does.
Reply(call, code, message) ==
    /\ calls' = Lose(calls (-) One(call), call, code)
    /\ response' = [code |-> code, message |-> message]

\* A request answered as its first store access completes, or before: it never
\* comes into flight.
ReplyAtOnce(code, message) ==
    /\ response' = [code |-> code, message |-> message]
    /\ UNCHANGED calls

Become(call, new) ==
    /\ calls' = (calls (-) One(call)) (+) One(new)
    /\ response' = NoResponse

Goto(call, pc) == Become(call, [call EXCEPT !.pc = pc])

(***************************************************************************)
(* Two documents of one call: Promise.all([findById, findById]) and        *)
(* Promise.all([sender.save(), receiver.save()]).  The two accesses        *)
(* complete in either order; the first rejection makes the handler answer  *)
(* 500 while the other access still completes.                             *)
(***************************************************************************)
Roles == {"sender", "receiver"}

Other(role) == IF role = "sender" THEN "receiver" ELSE "sender"

Arg(call, role) == IF role = "sender" THEN call.fromUser ELSE call.toUser

\* The loaded document, without the arrays that the handler never reads.
Project(op, role, doc) ==
    IF op = "removeFriend" THEN
        [doc EXCEPT !.incomingRequests = <<>>, !.outgoingRequests = <<>>]
    ELSE IF role = "sender" THEN
        [doc EXCEPT !.incomingRequests = <<>>]
    ELSE IF op = "sendRequestArray" THEN
        [doc EXCEPT !.outgoingRequests = <<>>, !.friends = <<>>]
    ELSE [doc EXCEPT !.outgoingRequests = <<>>]

Load(call, role) ==
    [call EXCEPT ![role] = Project(call.op, role, FindById(CastId(Arg(call, role)))),
                 !.reads[role] = "ok", !.stale[role] = FALSE]

\* A save of document id that increments __v: the loaded copies of it, but the
\* one saved (role keep of this call), are stale from now on.  Only the saves of
\* removeFriend test __v, so only its copies are marked.
Touch(call, id, keep) ==
    [call EXCEPT !.stale =
        [r \in Roles |->
            IF call.op = "removeFriend" /\ r # keep /\ call[r].found /\ call[r].id = id
            THEN TRUE ELSE call.stale[r]]]

\* The calls after call has saved its copy role of document id, incrementing __v.
Touched(call, id, role) ==
    LET F(x) == Touch(x, id, "")
        rest == calls (-) One(call)
    IN [y \in {F(x) : x \in DOMAIN rest} |->
            Copies(rest, {x \in DOMAIN rest : F(x) = y})] (+) One(Touch(call, id, role))

\* One of the two saves of a call completes, well (good) or not; cs is the bag
\* without the call, saved the call as it is after the save.  When both have
\* completed well the handler goes on at next, or answers when next is "".
Settle(cs, saved, role, good, errorMessage, next, code, message) ==
    LET call == [saved EXCEPT !.saves[role] = IF good THEN "ok" ELSE "err"]
        both == call.saves[Other(role)] # "pending"
        allOk == call.saves["sender"] = "ok" /\ call.saves["receiver"] = "ok"
        first == ~good /\ ~call.responded
    IN  IF both /\ allOk /\ next = "" THEN
            /\ calls' = Lose(cs, call, code)
            /\ response' = [code |-> code, message |-> message]
        ELSE IF both /\ allOk THEN
            /\ calls' = cs (+) One([call EXCEPT !.pc = next, !.saves = NoIO])
            /\ response' = NoResponse
        ELSE
            /\ calls' = IF both THEN cs
                        ELSE cs (+) One([call EXCEPT !.responded = @ \/ first])
            /\ response' =
                    IF first THEN [code |-> 500, message |-> errorMessage] ELSE NoResponse

TypeOK ==
    /\ \A u \in UserIds : users[u].found => users[u].id = u
    /\ nextRequestId \in 1..(MaxRequests + 1)
    /\ BagCardinality(calls) <= MaxCalls
    /\ response.code \in {0, 200, 201, 400, 404, 500}

Init ==
    /\ users = [u \in UserIds |-> NoDoc]
    /\ friendRequests = [r \in RequestIds |-> NoRequest]
    /\ nextRequestId = 1
    /\ calls = EmptyBag
    /\ response = NoResponse

(***************************************************************************)
(* POST /api/signup: a new user document with empty arrays.  Ids are       *)
(* handed out in order.                                                    *)
(***************************************************************************)
Signup(u) ==
    /\ u \in UserIds
    /\ ~users[u].found
    /\ \A v \in UserIds : v < u => users[v].found
    /\ users' = [users EXCEPT ![u] = userSchema(u)]
    /\ response' = NoResponse
    /\ UNCHANGED <<friendRequests, nextRequestId, calls>>

(***************************************************************************)
(* POST /api/friend-request, registered first (record-based).              *)
(***************************************************************************)
SendRequestFindSender(fromUser, toUser, ok) ==
    /\ Room
    /\ LET sender == FindById(CastId(fromUser))
       IN IF Falsy(fromUser) \/ Falsy(toUser) THEN
                ReplyAtOnce(400, "Both fromUser and toUser are required")
          ELSE IF fromUser = toUser THEN
                ReplyAtOnce(400, "Cannot send request to yourself")
          ELSE IF ~ok \/ ~sender.found THEN
                \* a store failure, or sender is null and sender.friends throws
                ReplyAtOnce(500, "Error sending friend request")
          ELSE IF Includes(sender.friends, CastId(toUser)) THEN
                ReplyAtOnce(400, "Already friends")
          ELSE
                \* every later use of the two ids casts them
                Enter([Idle EXCEPT !.op = "sendRequest", !.pc = "findExisting",
                                   !.fromUser = toString(CastId(fromUser)),
                                   !.toUser = toString(CastId(toUser))])
    /\ UNCHANGED store

SendRequestFindExisting(call, ok) ==
    /\ call.op = "sendRequest" /\ call.pc = "findExisting"
    /\ IF ~ok THEN
            Reply(call, 500, "Error sending friend request")
       ELSE IF FindPendingRequest(call.fromUser, call.toUser) THEN
            Reply(call, 400, "Friend request already sent")
       ELSE Goto(call, "save")
    /\ UNCHANGED store

\* SendRequestSave with the two pushes of the handler registered second:
\* sender.outgoingRequests.push(toUser), receiver.incomingRequests.push(fromUser).
SendRequestSavePushed(call, ok) ==
    /\ call.op = "sendRequest" /\ call.pc = "save"
    /\ IF ok THEN
            /\ nextRequestId <= MaxRequests
            /\ friendRequests' =
                [friendRequests EXCEPT ![nextRequestId] =
                    friendRequestSchema(call.fromUser, call.toUser)]
            /\ nextRequestId' = nextRequestId + 1
            /\ users' =
                [u \in UserIds |->
                    IF ~users[u].found THEN users[u]
                    ELSE [users[u] EXCEPT
                            !.outgoingRequests =
                                IF u = CastId(call.fromUser)
                                THEN Append(@, CastId(call.toUser)) ELSE @,
                            !.incomingRequests =
                                IF u = CastId(call.toUser)
                                THEN Append(@, CastId(call.fromUser)) ELSE @]]
            /\ Reply(call, 201, "Friend request sent successfully")
       ELSE
            /\ Reply(call, 500, "Error sending friend request")
            /\ UNCHANGED <<friendRequests, nextRequestId, users>>

SendRequestSave(call, ok) ==
    /\ call.op = "sendRequest" /\ call.pc = "save"
    /\ IF ok THEN
            /\ nextRequestId <= MaxRequests
            /\ friendRequests' =
                [friendRequests EXCEPT ![nextRequestId] =
                    friendRequestSchema(call.fromUser, call.toUser)]
            /\ nextRequestId' = nextRequestId + 1
            /\ Reply(call, 201, "Friend request sent successfully")
       ELSE
            /\ Reply(call, 500, "Error sending friend request")
            /\ UNCHANGED <<friendRequests, nextRequestId>>
    /\ UNCHANGED users

(***************************************************************************)
(* DELETE /api/friend-request/:requestId                                   *)
(***************************************************************************)
\* The ids a client can name: those the server has handed out, and 0, an id
\* of no record.
RequestInputs == 0..(nextRequestId - 1)

CancelRequestFind(requestId, ok) ==
    /\ Room
    /\ LET request == FindRequestById(requestId)
       IN IF ~ok THEN ReplyAtOnce(500, "Error cancelling friend request")
          ELSE IF ~request.found THEN ReplyAtOnce(404, "Friend request not found")
          ELSE IF request.status # "pending" THEN
                ReplyAtOnce(400, "Only pending requests can be cancelled")
          ELSE Enter([Idle EXCEPT !.op = "cancelRequest", !.pc = "delete",
                                  !.requestId = requestId])
    /\ UNCHANGED store

\* FriendRequest.findByIdAndDelete(requestId): whatever the record's status is by now.
CancelRequestDelete(call, ok) ==
    /\ call.op = "cancelRequest" /\ call.pc = "delete"
    /\ IF ok THEN
            /\ friendRequests' = [friendRequests EXCEPT ![call.requestId] = NoRequest]
            /\ Reply(call, 200, "Friend request cancelled")
       ELSE
            /\ Reply(call, 500, "Error cancelling friend request")
            /\ UNCHANGED friendRequests
    /\ UNCHANGED <<users, nextRequestId>>

(***************************************************************************)
(* PUT /api/friend-request/:requestId, registered first (record-based).    *)
(***************************************************************************)
ResolveMessage(status) ==
    IF status = "accepted" THEN "Friend request accepted"
    ELSE IF status = "rejected" THEN "Friend request rejected"
    ELSE "Friend request pending"

\* findById, then request.status = status: the loaded document holds the new
\* status, and is modified when that differs from the stored one.
ResolveRequestFind(requestId, status, ok) ==
    /\ Room
    /\ LET request == FindRequestById(requestId)
       IN IF ~ok THEN ReplyAtOnce(500, "Error updating friend request")
          ELSE IF ~request.found THEN ReplyAtOnce(404, "Friend request not found")
          ELSE Enter([Idle EXCEPT !.op = "resolveRequest", !.pc = "save",
                                  !.requestId = requestId,
                                  !.request = [request EXCEPT !.status = status],
                                  !.modified = (request.status # status)])
    /\ UNCHANGED store

\* User.findByIdAndUpdate(id, { $addToSet: { friends: friend } }): no document, no update.
AddFriend(us, id, friend) ==
    IF id \in UserIds /\ us[id].found
    THEN [us EXCEPT ![id].friends = AddToSet(@, friend)]
    ELSE us

\* ResolveRequestSave with a save() that answers without writing the status.
ResolveRequestSaveUnwritten(call, ok) ==
    /\ call.op = "resolveRequest" /\ call.pc = "save"
    /\ call.modified \/ ok
    /\ IF call.modified /\ ~(ok /\ friendRequests[call.requestId].found) THEN
            Reply(call, 500, "Error updating friend request")
       ELSE IF call.request.status = "accepted" THEN
            Become(call, [call EXCEPT !.pc = "addToSender", !.modified = FALSE])
       ELSE Reply(call, 200, ResolveMessage(call.request.status))
    /\ UNCHANGED store

\* await request.save().  An unmodified document is not written; a modified one
\* whose record is gone makes save() throw.
ResolveRequestSave(call, ok) ==
    /\ call.op = "resolveRequest" /\ call.pc = "save"
    /\ LET written == call.modified /\ ok /\ friendRequests[call.requestId].found
       IN /\ call.modified \/ ok
          /\ friendRequests' =
                IF written
                THEN [friendRequests EXCEPT ![call.requestId].status = call.request.status]
                ELSE friendRequests
          /\ IF call.modified /\ ~written THEN
                Reply(call, 500, "Error updating friend request")
             ELSE IF call.request.status = "accepted" THEN
                Become(call, [call EXCEPT !.pc = "addToSender", !.modified = FALSE])
             ELSE Reply(call, 200, ResolveMessage(call.request.status))
    /\ UNCHANGED <<users, nextRequestId>>

ResolveRequestAddToSender(call, ok) ==
    /\ call.op = "resolveRequest" /\ call.pc = "addToSender"
    /\ IF ok THEN
            /\ users' = AddFriend(users, call.request.fromUser, call.request.toUser)
            /\ Goto(call, "addToReceiver")
       ELSE
            /\ Reply(call, 500, "Error updating friend request")
            /\ UNCHANGED users
    /\ UNCHANGED <<friendRequests, nextRequestId>>

ResolveRequestAddToReceiver(call, ok) ==
    /\ call.op = "resolveRequest" /\ call.pc = "addToReceiver"
    /\ IF ok THEN
            /\ users' = AddFriend(users, call.request.toUser, call.request.fromUser)
            /\ Reply(call, 200, ResolveMessage(call.request.status))
       ELSE
            /\ Reply(call, 500, "Error updating friend request")
            /\ UNCHANGED users
    /\ UNCHANGED <<friendRequests, nextRequestId>>

(***************************************************************************)
(* DELETE /api/friends/:userId/:friendId.  sender is the document of       *)
(* userId (user), receiver that of friendId (friend).                      *)
(***************************************************************************)
\* user.friends = user.friends.filter(id => id.toString() !== friendId), and the
\* same for friend with userId.
RemoveFiltered(call, role) == FilterOut(call[role].friends, Arg(call, Other(role)))

\* Both documents are loaded: the handler's code up to the two saves.  A
\* document whose array is unchanged is not modified, and its save writes nothing.
RemoveFriendLoaded(call, loaded) ==
    IF ~loaded.sender.found \/ ~loaded.receiver.found THEN
        Reply(call, 404, "User not found")
    ELSE
        LET saves == [r \in Roles |->
                        IF RemoveFiltered(loaded, r) # loaded[r].friends
                        THEN "pending" ELSE "ok"]
        IN IF \A r \in Roles : saves[r] = "ok" THEN
                Reply(call, 200, "Friend removed successfully")
           ELSE Become(call, [loaded EXCEPT !.pc = "save", !.saves = saves])

\* The first of the two findById calls completes.
RemoveFriendFind(userId, friendId, role, ok) ==
    /\ Room
    /\ IF ~ok THEN ReplyAtOnce(500, "Error removing friend")
       ELSE Enter(Load([Idle EXCEPT !.op = "removeFriend", !.pc = "find",
                                    !.fromUser = userId, !.toUser = friendId,
                                    !.reads = [BothIO EXCEPT ![role] = "ok"]], role))
    /\ UNCHANGED store

\* The second one completes.
RemoveFriendFindOther(call, role, ok) ==
    /\ call.op = "removeFriend" /\ call.pc = "find"
    /\ call.reads[role] = "pending"
    /\ IF ~ok THEN Reply(call, 500, "Error removing friend")
       ELSE RemoveFriendLoaded(call, Load(call, role))
    /\ UNCHANGED store

\* user.save() or friend.save(): $set of the whole array where __v is the
\* loaded one, and $inc of __v.
RemoveFriendSave(call, role, ok) ==
    /\ call.op = "removeFriend" /\ call.pc = "save"
    /\ call.saves[role] = "pending"
    /\ LET id == call[role].id
           good == ok /\ ~call.stale[role]
           cs == IF good THEN Touched(call, id, role) ELSE calls
           saved == IF good THEN Touch(call, id, role) ELSE call
       IN /\ users' = IF good
                      THEN [users EXCEPT ![id].friends = RemoveFiltered(call, role)]
                      ELSE users
          /\ Settle(cs (-) One(saved), saved, role, good,
                    "Error removing friend", "", 200, "Friend removed successfully")
    /\ UNCHANGED <<friendRequests, nextRequestId>>

(***************************************************************************)
(* GET /api/friend-requests/check/:fromUserId/:toUserId and                *)
(* GET /api/friends/:userId: what they answer in the current store.        *)
(***************************************************************************)
CheckStatus(fromUserId, toUserId) ==
    LET sender == FindById(CastId(fromUserId))
        receiver == FindById(CastId(toUserId))
    IN  IF ~sender.found \/ ~receiver.found THEN "User not found"
        ELSE IF Includes(sender.friends, CastId(toUserId)) THEN "friends"
        ELSE IF \/ Includes(sender.outgoingRequests, CastId(toUserId))
                \/ Includes(receiver.incomingRequests, CastId(fromUserId))
             THEN "pending"
        ELSE "none"

ListFriends(userId) == FindById(CastId(userId)).friends

(***************************************************************************)
(* POST /api/friend-request, registered second (array-based).              *)
(***************************************************************************)
\* Both documents are loaded: the handler's code up to the two saves.  The
\* two pushes are sent as $push, whatever the documents hold by then.
SendRequestArrayLoaded(call, loaded) ==
    IF ~loaded.sender.found \/ ~loaded.receiver.found THEN
        Reply(call, 404, "User not found")
    ELSE IF Includes(loaded.sender.friends, CastId(loaded.toUser)) THEN
        Reply(call, 400, "Already friends")
    ELSE IF \/ Includes(loaded.sender.outgoingRequests, CastId(loaded.toUser))
            \/ Includes(loaded.receiver.incomingRequests, CastId(loaded.fromUser))
         THEN Reply(call, 400, "Friend request already sent")
    ELSE Become(call, [loaded EXCEPT !.pc = "save", !.saves = BothIO, !.reads = NoIO,
                                     !.sender = NoDoc, !.receiver = NoDoc])

SendRequestArrayFind(fromUser, toUser, role, ok) ==
    /\ Room
    /\ IF ~ok THEN ReplyAtOnce(500, "Error sending friend request")
       ELSE Enter(Load([Idle EXCEPT !.op = "sendRequestArray", !.pc = "find",
                                    !.fromUser = fromUser, !.toUser = toUser,
                                    !.reads = [BothIO EXCEPT ![role] = "ok"]], role))
    /\ UNCHANGED store

SendRequestArrayFindOther(call, role, ok) ==
    /\ call.op = "sendRequestArray" /\ call.pc = "find"
    /\ call.reads[role] = "pending"
    /\ IF ~ok THEN Reply(call, 500, "Error sending friend request")
       ELSE SendRequestArrayLoaded(call, Load(call, role))
    /\ UNCHANGED store

\* sender.save() or receiver.save(): $push of the new entry and $inc of __v,
\* with no condition on __v.
SendRequestArraySave(call, role, ok) ==
    /\ call.op = "sendRequestArray" /\ call.pc = "save"
    /\ call.saves[role] = "pending"
    /\ LET id == CastId(Arg(call, role))
           cs == IF ok THEN Touched(call, id, role) ELSE calls
           saved == IF ok THEN Touch(call, id, role) ELSE call
       IN /\ users' =
                IF ~ok THEN users
                ELSE IF role = "sender"
                THEN [users EXCEPT ![id].outgoingRequests = Append(@, CastId(call.toUser))]
                ELSE [users EXCEPT ![id].incomingRequests = Append(@, CastId(call.fromUser))]
          /\ Settle(cs (-) One(saved), saved, role, ok, "Error sending friend request",
                    "", 201, "Friend request sent successfully")
    /\ UNCHANGED <<friendRequests, nextRequestId>>

(***************************************************************************)
(* PUT /api/friend-request/:requestId, registered second (array-based).    *)
(* The documents are loaded with a projection that leaves __v out, so      *)
(* their saves neither test nor increment it.                              *)
(***************************************************************************)
\* The code between the two findById calls and the two saves, on the loaded
\* documents: pushed tells whether the friends array got a new entry.
ResolveArrayModify(doc, other, status) ==
    LET pushed == status = "accepted" /\ ~SomeEquals(doc.friends, other.id)
    IN [doc EXCEPT
            !.incomingRequests = FilterOut(@, toString(other.id)),
            !.outgoingRequests = FilterOut(@, toString(other.id)),
            !.friends = IF pushed THEN <<other.id>> ELSE <<>>]

ResolveRequestArrayLoaded(call, loaded) ==
    IF ~loaded.sender.found \/ ~loaded.receiver.found THEN
        Reply(call, 404, "User not found")
    ELSE IF ~(/\ SomeEquals(loaded.receiver.incomingRequests, loaded.sender.id)
              /\ SomeEquals(loaded.sender.outgoingRequests, loaded.receiver.id))
         THEN Reply(call, 404, "Friend request not found")
    ELSE Become(call,
            [loaded EXCEPT
                !.pc = "save", !.saves = BothIO, !.reads = NoIO,
                !.sender = ResolveArrayModify(loaded.sender, loaded.receiver, loaded.status),
                !.receiver = ResolveArrayModify(loaded.receiver, loaded.sender, loaded.status)])

ResolveRequestArrayFind(fromUser, toUser, status, role, ok) ==
    /\ Room
    /\ IF Falsy(fromUser) \/ Falsy(toUser) THEN ReplyAtOnce(400, "Missing user IDs")
       ELSE IF ~ok THEN ReplyAtOnce(500, "Error handling friend request")
       ELSE Enter(Load([Idle EXCEPT !.op = "resolveRequestArray", !.pc = "find",
                                    !.fromUser = fromUser, !.toUser = toUser,
                                    !.status = status,
                                    !.reads = [BothIO EXCEPT ![role] = "ok"]], role))
    /\ UNCHANGED store

ResolveRequestArrayFindOther(call, role, ok) ==
    /\ call.op = "resolveRequestArray" /\ call.pc = "find"
    /\ call.reads[role] = "pending"
    /\ IF ~ok THEN Reply(call, 500, "Error handling friend request")
       ELSE ResolveRequestArrayLoaded(call, Load(call, role))
    /\ UNCHANGED store

\* sender.save() or receiver.save(): $set of the assigned array and $push of
\* the new friend.
ResolveRequestArraySave(call, role, ok) ==
    /\ call.op = "resolveRequestArray" /\ call.pc = "save"
    /\ call.saves[role] = "pending"
    /\ LET doc == call[role]
       IN /\ users' =
                IF ~ok THEN users
                ELSE IF role = "sender"
                THEN [users EXCEPT ![doc.id].outgoingRequests = doc.outgoingRequests,
                                   ![doc.id].friends = @ \o doc.friends]
                ELSE [users EXCEPT ![doc.id].incomingRequests = doc.incomingRequests,
                                   ![doc.id].friends = @ \o doc.friends]
          /\ Settle(calls (-) One(call), call, role, ok, "Error handling friend request",
                    "refetch", 0, "")
    /\ UNCHANGED <<friendRequests, nextRequestId>>

\* User.findById(receiver._id) for the response.
ResolveRequestArrayRefetch(call, ok) ==
    /\ call.op = "resolveRequestArray" /\ call.pc = "refetch"
    /\ IF ~ok THEN Reply(call, 500, "Error handling friend request")
       ELSE Reply(call, 200, IF call.status = "accepted" THEN "Friend request accepted"
                             ELSE "Friend request rejected")
    /\ UNCHANGED store

(***************************************************************************)
(* The server as Express dispatches it: of two handlers registered for one *)
(* method and path, the first answers every request and never calls        *)
(* next(), so the second is never run.                                     *)
(***************************************************************************)
\* No request is in flight: every operation issued so far has completed.
Quiescent == calls = EmptyBag

\* Concurrent requests that name the users that exist, on a store that does not
\* fail.  (A removeFriend that names one user twice is left to NextFail.)
Next ==
    \/ \E u \in UserIds : Signup(u)
    \/ \E f \in UserInputs, t \in UserInputs : SendRequestFindSender(f, t, TRUE)
    \/ \E call \in Running : SendRequestFindExisting(call, TRUE)
    \/ \E call \in Running : SendRequestSave(call, TRUE)
    \/ \E r \in RequestInputs : CancelRequestFind(r, TRUE)
    \/ \E call \in Running : CancelRequestDelete(call, TRUE)
    \/ \E r \in RequestInputs, st \in StatusEnum :
            ResolveRequestFind(r, st, TRUE)
    \/ \E call \in Running : ResolveRequestSave(call, TRUE)
    \/ \E call \in Running : ResolveRequestAddToSender(call, TRUE)
    \/ \E call \in Running : ResolveRequestAddToReceiver(call, TRUE)
    \/ \E u \in UserInputs, f \in UserInputs, role \in Roles :
            u # f /\ RemoveFriendFind(u, f, role, TRUE)
    \/ \E call \in Running, role \in Roles : RemoveFriendFindOther(call, role, TRUE)
    \/ \E call \in Running, role \in Roles : RemoveFriendSave(call, role, TRUE)

Spec == Init /\ [][Next]_vars

\* One request at a time, naming any ids, on a store whose every access may fail
\* (ok = FALSE).
NextFail ==
    \/ \E u \in UserIds : Signup(u)
    \/ \E f \in IdInputs, t \in IdInputs, ok \in BOOLEAN : Quiescent /\ SendRequestFindSender(f, t, ok)
    \/ \E call \in Running, ok \in BOOLEAN : SendRequestFindExisting(call, ok)
    \/ \E call \in Running, ok \in BOOLEAN : SendRequestSave(call, ok)
    \/ \E r \in RequestInputs, ok \in BOOLEAN : Quiescent /\ CancelRequestFind(r, ok)
    \/ \E call \in Running, ok \in BOOLEAN : CancelRequestDelete(call, ok)
    \/ \E r \in RequestInputs, st \in StatusEnum, ok \in BOOLEAN :
            Quiescent /\ ResolveRequestFind(r, st, ok)
    \/ \E call \in Running, ok \in BOOLEAN : ResolveRequestSave(call, ok)
    \/ \E call \in Running, ok \in BOOLEAN : ResolveRequestAddToSender(call, ok)
    \/ \E call \in Running, ok \in BOOLEAN : ResolveRequestAddToReceiver(call, ok)
    \/ \E u \in (IdInputs \ {Undefined}), f \in (IdInputs \ {Undefined}), role \in Roles, ok \in BOOLEAN :
            Quiescent /\ RemoveFriendFind(u, f, role, ok)
    \/ \E call \in Running, role \in Roles, ok \in BOOLEAN : RemoveFriendFindOther(call, role, ok)
    \/ \E call \in Running, role \in Roles, ok \in BOOLEAN : RemoveFriendSave(call, role, ok)

SpecFail == Init /\ [][NextFail]_vars

(***************************************************************************)
(* The same two environments with the array-based handlers of POST and PUT *)
(* /api/friend-request, registered second, taken as the mounted ones.      *)
(***************************************************************************)
\* (A request that names one user twice is left to NextArrayFail.)
NextArray ==
    \/ \E u \in UserIds : Signup(u)
    \/ \E f \in UserInputs, t \in UserInputs, role \in Roles :
            f # t /\ SendRequestArrayFind(f, t, role, TRUE)
    \/ \E call \in Running, role \in Roles : SendRequestArrayFindOther(call, role, TRUE)
    \/ \E call \in Running, role \in Roles : SendRequestArraySave(call, role, TRUE)
    \/ \E f \in UserInputs, t \in UserInputs, st \in {"accepted", "rejected"}, role \in Roles :
            f # t /\ ResolveRequestArrayFind(f, t, st, role, TRUE)
    \/ \E call \in Running, role \in Roles :
            ResolveRequestArrayFindOther(call, role, TRUE)
    \/ \E call \in Running, role \in Roles : ResolveRequestArraySave(call, role, TRUE)
    \/ \E call \in Running : ResolveRequestArrayRefetch(call, TRUE)
    \/ \E u \in UserInputs, f \in UserInputs, role \in Roles :
            u # f /\ RemoveFriendFind(u, f, role, TRUE)
    \/ \E call \in Running, role \in Roles : RemoveFriendFindOther(call, role, TRUE)
    \/ \E call \in Running, role \in Roles : RemoveFriendSave(call, role, TRUE)

SpecArray == Init /\ [][NextArray]_vars

NextArrayFail ==
    \/ \E u \in UserIds : Signup(u)
    \/ \E f \in UserInputs, t \in UserInputs, role \in Roles, ok \in BOOLEAN :
            Quiescent /\ SendRequestArrayFind(f, t, role, ok)
    \/ \E call \in Running, role \in Roles, ok \in BOOLEAN : SendRequestArrayFindOther(call, role, ok)
    \/ \E call \in Running, role \in Roles, ok \in BOOLEAN : SendRequestArraySave(call, role, ok)
    \/ \E f \in UserInputs, t \in UserInputs, st \in {"accepted", "rejected"}, role \in Roles, ok \in BOOLEAN :
            Quiescent /\ ResolveRequestArrayFind(f, t, st, role, ok)
    \/ \E call \in Running, role \in Roles, ok \in BOOLEAN :
            ResolveRequestArrayFindOther(call, role, ok)
    \/ \E call \in Running, role \in Roles, ok \in BOOLEAN : ResolveRequestArraySave(call, role, ok)
    \/ \E call \in Running, ok \in BOOLEAN : ResolveRequestArrayRefetch(call, ok)
    \/ \E u \in UserInputs, f \in UserInputs, role \in Roles, ok \in BOOLEAN :
            Quiescent /\ RemoveFriendFind(u, f, role, ok)
    \/ \E call \in Running, role \in Roles, ok \in BOOLEAN : RemoveFriendFindOther(call, role, ok)
    \/ \E call \in Running, role \in Roles, ok \in BOOLEAN : RemoveFriendSave(call, role, ok)

SpecArrayFail == Init /\ [][NextArrayFail]_vars

(***************************************************************************)
(* What the claims speak of.                                               *)
(***************************************************************************)
\* The pending records of the ordered pair (a, b).
PendingRecords(a, b) ==
    {r \in RequestIds : /\ friendRequests[r].found
                        /\ friendRequests[r].fromUser = a
                        /\ friendRequests[r].toUser = b
                        /\ friendRequests[r].status = "pending"}

\* outgoingRequests and incomingRequests are mirror images.
Mirror ==
    \A a \in UserIds, b \in UserIds :
        Includes(users[a].outgoingRequests, b) <=> Includes(users[b].incomingRequests, a)

\* The friends arrays are symmetric.
Symmetric == \A a \in UserIds, b \in UserIds : Lists(a, b) <=> Lists(b, a)

SelfRecord(r) ==
    friendRequests[r].found /\ friendRequests[r].fromUser = friendRequests[r].toUser

Succeeded == response.code \in {200, 201}

\* A sendRequest call in flight that names one user twice.
SelfSend(call) ==
    call.op = "sendRequest" /\ CastId(call.fromUser) = CastId(call.toUser)

(***************************************************************************)
(* C1.                                                                     *)
(***************************************************************************)
\* C1: whenever every operation issued has completed, for every pair of users A
\* and B at most one of these holds: A and B are friends; a request A -> B is
\* pending; a request B -> A is pending.
C1_AtMostOneRelation ==
    Quiescent =>
        \A a \in UserIds, b \in UserIds :
            a # b =>
                /\ ~(AreFriends(a, b) /\ (Pending(a, b) \/ Pending(b, a)))
                /\ ~(Pending(a, b) /\ Pending(b, a))

\* C1, the case reached: sendRequest(1,2) and sendRequest(2,1) have both been
\* answered 201 and both records are pending.
C1_PendingBothWays ==
    /\ Quiescent
    /\ response.code = 201
    /\ PendingRecords(1, 2) # {}
    /\ PendingRecords(2, 1) # {}

C3_FriendsSymmetric == Quiescent => Symmetric

\* C3, the case reached: every operation has completed with success, and one
\* user lists the other as a friend without being listed back.
C3_OneSidedFriendship ==
    /\ Quiescent
    /\ Succeeded
    /\ \E a \in UserIds, b \in UserIds : a # b /\ Lists(a, b) /\ ~Lists(b, a)

(***************************************************************************)
(* C4.                                                                     *)
(***************************************************************************)
\* C4: no user is in its own friends, outgoingRequests or incomingRequests, and
\* no friend-request record has fromUser equal to toUser.
C4_NoSelfRelationship ==
    /\ \A a \in UserIds :
        /\ ~Includes(users[a].friends, a)
        /\ ~Includes(users[a].outgoingRequests, a)
        /\ ~Includes(users[a].incomingRequests, a)
    /\ \A r \in RequestIds : ~SelfRecord(r)

\* C4, the case reached: a user is its own friend, by way of an accepted record
\* whose fromUser is its toUser.
C4_OwnFriend ==
    /\ Quiescent
    /\ response = [code |-> 200, message |-> "Friend request accepted"]
    /\ \E r \in RequestIds : SelfRecord(r) /\ friendRequests[r].status = "accepted"
    /\ \E a \in UserIds : Lists(a, a)

(***************************************************************************)
(* C5.                                                                     *)
(***************************************************************************)
\* C5: a sendRequest that names the same user as sender and as receiver changes
\* no record, and its only answer is 400 "Cannot send request to yourself".
\* (The store accesses of the steps looked at all succeed.)
C5_SelfRequestRejected ==
    [][\A call \in Running :
        (/\ SelfSend(call)
         /\ SendRequestFindExisting(call, TRUE) \/ SendRequestSave(call, TRUE))
            => /\ UNCHANGED store
               /\ response'.code # 0 =>
                    response' = [code |-> 400, message |-> "Cannot send request to yourself"]]_vars

\* C5, the case reached: sendRequest(A,A) has been answered 201 and its record
\* is stored.
C5_SelfRequestStored ==
    /\ Quiescent
    /\ response = [code |-> 201, message |-> "Friend request sent successfully"]
    /\ \E r \in RequestIds : SelfRecord(r) /\ friendRequests[r].status = "pending"

(***************************************************************************)
(* C6.                                                                     *)
(***************************************************************************)
\* C6: when a sendRequest(A,B) that arrived with the status of the pair none
\* stores its request and answers 201, queryStatus(A,B) returns pending, B is in
\* A.outgoingRequests and A is in B.incomingRequests.
C6_SentIsPending ==
    [][\A call \in Running :
        (call.race = "none" /\ SendRequestSave(call, TRUE))
            => /\ CheckStatus(call.fromUser, call.toUser)' = "pending"
               /\ Includes(users'[CastId(call.fromUser)].outgoingRequests,
                           CastId(call.toUser))
               /\ Includes(users'[CastId(call.toUser)].incomingRequests,
                           CastId(call.fromUser))]_vars

\* C6, the case reached: sendRequest(1,2) has been answered 201, its record is
\* pending, and queryStatus(1,2) returns none.
C6_SentButStatusNone ==
    /\ Quiescent
    /\ response = [code |-> 201, message |-> "Friend request sent successfully"]
    /\ PendingRecords(1, 2) # {}
    /\ CheckStatus(toString(1), toString(2)) = "none"

(***************************************************************************)
(* C7.                                                                     *)
(***************************************************************************)
\* C7: of two overlapping sendRequest(A,B) calls that both arrived with the
\* status of the pair none, the one that answers while the other's request is
\* pending answers 400, and one pending record A -> B is left.
C7_OneWinner ==
    [][\A call \in Running :
        (/\ call.op = "sendRequest" /\ call.race = "lost"
         /\ PendingRecords(CastId(call.fromUser), CastId(call.toUser)) # {}
         /\ SendRequestFindExisting(call, TRUE) \/ SendRequestSave(call, TRUE)
         /\ response'.code # 0)
            => /\ response'.code = 400
               /\ Cardinality(PendingRecords(CastId(call.fromUser),
                                             CastId(call.toUser))') = 1]_vars

\* C7, the case reached: both calls have been answered, the later one 201, and
\* two pending records 1 -> 2 are stored.
C7_TwoPendingRecords ==
    /\ Quiescent
    /\ response = [code |-> 201, message |-> "Friend request sent successfully"]
    /\ Cardinality(PendingRecords(1, 2)) = 2

(***************************************************************************)
(* C8.                                                                     *)
(***************************************************************************)
\* C8: a sendRequest(B,A) that arrived while the status of the pair was not none
\* and answers while a request A -> B is pending answers 400 and changes no
\* record.
C8_ReverseRejected ==
    [][\A call \in Running :
        (/\ call.op = "sendRequest" /\ call.race = ""
         /\ PendingRecords(CastId(call.toUser), CastId(call.fromUser)) # {}
         /\ SendRequestFindExisting(call, TRUE) \/ SendRequestSave(call, TRUE)
         /\ response'.code # 0)
            => response'.code = 400 /\ UNCHANGED store]_vars

\* C8, the case reached: sendRequest(1,2) and then sendRequest(2,1) have been
\* answered 201, and the two records are pending together.
C8_ReverseStored ==
    /\ Quiescent
    /\ response = [code |-> 201, message |-> "Friend request sent successfully"]
    /\ friendRequests[1] = friendRequestSchema(toString(1), toString(2))
    /\ friendRequests[2] = friendRequestSchema(toString(2), toString(1))

(***************************************************************************)
(* C9.                                                                     *)
(***************************************************************************)
\* C9: a sendRequest stores its request only when it arrived with the status of
\* the pair none; one that arrived otherwise changes no record, and its answer
\* is 400.
C9_OnlyFromNone ==
    [][\A call \in Running :
        /\ SendRequestSave(call, TRUE) => call.race # ""
        /\ (/\ call.op = "sendRequest" /\ call.race = ""
            /\ SendRequestFindExisting(call, TRUE) \/ SendRequestSave(call, TRUE))
                => /\ UNCHANGED store
                   /\ response'.code \in {0, 400}]_vars

\* C9, the case reached: a sendRequest that arrived while the status of its pair
\* was pending is about to store its request.
C9_SaveFromPending ==
    \E call \in Running :
        /\ call.op = "sendRequest" /\ call.pc = "save" /\ call.race = ""
        /\ PairStatus(CastId(call.fromUser), CastId(call.toUser)) = "pending"
        /\ BagCardinality(calls) = 1

(***************************************************************************)
(* C10.                                                                    *)
(***************************************************************************)
\* C10: a resolveRequest that arrives, with no other request in flight, for a
\* request that is no longer pending is answered 404 as its lookup completes
\* (the handler's only 404).
C10_SecondResolveNotFound ==
    [][\A r \in RequestIds, st \in StatusEnum :
        (/\ Quiescent
         /\ friendRequests[r].found
         /\ friendRequests[r].status # "pending"
         /\ ResolveRequestFind(r, st, TRUE))
            => response' = [code |-> 404, message |-> "Friend request not found"]]_vars

\* C10, the case reached: request 1 -> 2 was accepted, the two users list each
\* other, and a later resolveRequest has been answered 200 and has left the
\* record rejected.
C10_ResolvedTwice ==
    /\ Quiescent
    /\ response = [code |-> 200, message |-> "Friend request rejected"]
    /\ friendRequests[1].status = "rejected"
    /\ friendRequests[1].fromUser = 1 /\ friendRequests[1].toUser = 2
    /\ Lists(1, 2) /\ Lists(2, 1)
    /\ nextRequestId = 2

C12_LaterResolveNoOp ==
    [][\A call \in Running :
        (/\ call.op = "resolveRequest" /\ call.race = "none"
         /\ friendRequests[call.requestId].found
         /\ friendRequests[call.requestId].status # "pending"
         /\ ResolveRequestSave(call, TRUE))
            => UNCHANGED store]_vars

\* C12, the case reached: an accepting call for the request 1 -> 2 has answered
\* 200 after an overlapping rejecting call saved, and users 1 and 2 are friends
\* while the record is rejected.
C12_AcceptedThenRejected ==
    /\ Quiescent
    /\ response = [code |-> 200, message |-> "Friend request accepted"]
    /\ friendRequests[1] = [friendRequestSchema(toString(1), toString(2))
                                EXCEPT !.status = "rejected"]
    /\ nextRequestId = 2
    /\ Lists(1, 2) /\ Lists(2, 1)

(***************************************************************************)
(* C13.                                                                    *)
(***************************************************************************)
\* C13: when removeFriendship(A,B) for two users A # B that exist answers 200, B is
\* not in A.friends and A is not in B.friends; and when neither listed the
\* other, no record has changed.
C13_RemovedOnBothSides ==
    [][\A call \in Running :
        (/\ call.op = "removeFriend"
         /\ CastId(call.fromUser) # CastId(call.toUser)
         /\ \E role \in Roles : \/ RemoveFriendFindOther(call, role, TRUE)
                                \/ RemoveFriendSave(call, role, TRUE)
         /\ response'.code = 200)
            => LET a == CastId(call.fromUser)
                   b == CastId(call.toUser)
               IN /\ ~Lists(a, b)' /\ ~Lists(b, a)'
                  /\ ~AreFriends(a, b) => UNCHANGED store]_vars

\* C13, the case reached: removeFriendship has been answered 200 and user 1
\* is still in the friends of user 2, who is no longer in those of user 1.
C13_HalfRemoved ==
    /\ Quiescent
    /\ response = [code |-> 200, message |-> "Friend removed successfully"]
    /\ Lists(2, 1) /\ ~Lists(1, 2)

(***************************************************************************)
(* C14.                                                                    *)
(***************************************************************************)
\* C14: whenever every operation issued has completed, for all users A and B
\* that exist queryStatus(A,B) is friends exactly when each lists the other,
\* pending exactly when they are not friends and a request is pending in either
\* direction, none otherwise, and equal to queryStatus(B,A); for a user that
\* does not exist it is NotFound.
C14_StatusAsDefined ==
    Quiescent =>
        /\ \A a \in Existing, b \in Existing :
            LET status == CheckStatus(toString(a), toString(b))
                friends == Lists(a, b) /\ Lists(b, a)
                pending == ~friends /\ (Pending(a, b) \/ Pending(b, a))
            IN /\ status = "friends" <=> friends
               /\ status = "pending" <=> pending
               /\ status = "none" <=> ~friends /\ ~pending
               /\ status = CheckStatus(toString(b), toString(a))
        /\ \A a \in Existing \cup {Ghost} :
            /\ CheckStatus(toString(a), toString(Ghost)) = "User not found"
            /\ CheckStatus(toString(Ghost), toString(a)) = "User not found"

\* C14, the case reached: the last call has been answered with success, and
\* queryStatus(2,1) is friends while queryStatus(1,2) is none.
C14_StatusOneSided ==
    /\ Quiescent
    /\ Succeeded
    /\ CheckStatus(toString(2), toString(1)) = "friends"
    /\ CheckStatus(toString(1), toString(2)) = "none"

(***************************************************************************)
(* C15.                                                                    *)
(***************************************************************************)
\* C15: cancelRequest answers 404 for a request that is missing and 400 for one
\* that is accepted or rejected, changing nothing; what it deletes with answer
\* 200 is a request that is pending at that moment, after which no pending
\* record of the pair is left by it and, the two being users who are not
\* friends, queryStatus of the pair is none.
C15_CancelOnlyPending ==
    [][/\ \A r \in 0..MaxRequests :
            CancelRequestFind(r, TRUE) =>
                /\ UNCHANGED store
                /\ response' =
                    IF ~FindRequestById(r).found
                    THEN [code |-> 404, message |-> "Friend request not found"]
                    ELSE IF FindRequestById(r).status # "pending"
                    THEN [code |-> 400, message |-> "Only pending requests can be cancelled"]
                    ELSE NoResponse
       /\ \A call \in Running :
            CancelRequestDelete(call, TRUE) =>
                LET request == friendRequests[call.requestId]
                IN /\ request.found /\ request.status = "pending"
                   /\ response' = [code |-> 200, message |-> "Friend request cancelled"]
                   /\ ~friendRequests'[call.requestId].found
                   /\ \A a, b \in Existing :
                        (a = request.fromUser /\ b = request.toUser /\ ~AreFriends(a, b)) =>
                            CheckStatus(toString(a), toString(b))' = "none"]_vars

\* C15, the case reached: cancelRequest has been answered 200 for the only
\* request ever sent, which had been accepted: its record is gone and the two
\* users are friends.
C15_CancelledAccepted ==
    /\ Quiescent
    /\ response = [code |-> 200, message |-> "Friend request cancelled"]
    /\ nextRequestId = 2
    /\ ~friendRequests[1].found
    /\ Lists(1, 2) /\ Lists(2, 1)

(***************************************************************************)
(* C16.  One call at a time: what a call has loaded is what the store held *)
(* before it.                                                              *)
(***************************************************************************)
\* C16: when a store access of sendRequest, resolveRequest or removeFriendship
\* fails, the operation answers with an error and the step changes no record;
\* the request between two users that a resolveRequest found pending is pending
\* still, and
\* the friends arrays of both users of a removeFriendship are as the call loaded
\* them, also once its other save has completed.
C16_FailureChangesNothing ==
    [][/\ \A fromUser \in IdInputs, toUser \in IdInputs :
            SendRequestFindSender(fromUser, toUser, FALSE) =>
                response'.code >= 400 /\ UNCHANGED store
       /\ \A call \in Running :
            /\ (SendRequestFindExisting(call, FALSE) \/ SendRequestSave(call, FALSE)) =>
                    response'.code >= 400 /\ UNCHANGED store
            /\ (/\ call.race = "none" /\ call.request.fromUser # call.request.toUser
                /\ \/ ResolveRequestSave(call, FALSE)
                   \/ ResolveRequestAddToSender(call, FALSE)
                   \/ ResolveRequestAddToReceiver(call, FALSE)) =>
                    /\ response'.code >= 400 /\ UNCHANGED store
                    /\ friendRequests'[call.requestId].status = "pending"
            /\ \A role \in Roles :
                (\/ RemoveFriendFindOther(call, role, FALSE)
                 \/ RemoveFriendSave(call, role, FALSE)
                 \/ call.responded /\ RemoveFriendSave(call, role, TRUE)) =>
                    /\ call.responded \/ response'.code >= 400
                    /\ \A r \in Roles :
                        call[r].found => users'[call[r].id].friends = call[r].friends]_vars

\* C16, the case reached: resolveRequest has been answered 500 for the only
\* request ever sent, whose record is accepted; its sender lists its receiver
\* as a friend and is not listed back.
C16_HalfAccepted ==
    /\ Quiescent
    /\ response = [code |-> 500, message |-> "Error updating friend request"]
    /\ nextRequestId = 2
    /\ friendRequests[1].found /\ friendRequests[1].status = "accepted"
    /\ \E a \in UserIds, b \in UserIds :
        /\ a # b
        /\ friendRequests[1].fromUser = a /\ friendRequests[1].toUser = b
        /\ Lists(a, b) /\ ~Lists(b, a)

(***************************************************************************)
(* C17.                                                                    *)
(***************************************************************************)
\* C17: a sendRequest(A,B) with A # B of which A or B is not a user changes no
\* record at any of its store accesses, and its only answer is 404.  (The store
\* accesses of the steps looked at all succeed.)
C17_UnknownUserNotFound ==
    [][/\ \A fromUser \in IdInputs, toUser \in IdInputs :
            (/\ ~Falsy(fromUser) /\ ~Falsy(toUser)
             /\ CastId(fromUser) # CastId(toUser)
             /\ ~FindById(CastId(fromUser)).found \/ ~FindById(CastId(toUser)).found
             /\ SendRequestFindSender(fromUser, toUser, TRUE))
                => response'.code \in {0, 404} /\ UNCHANGED store
       /\ \A call \in Running :
            (/\ CastId(call.fromUser) # CastId(call.toUser)
             /\ ~FindById(CastId(call.fromUser)).found \/ ~FindById(CastId(call.toUser)).found
             /\ SendRequestFindExisting(call, TRUE) \/ SendRequestSave(call, TRUE))
                => response'.code \in {0, 404} /\ UNCHANGED store]_vars

\* C17, the case reached: a sendRequest from user 1 to an id that belongs to no
\* user has been answered 201, and its record is stored, pending.
C17_RequestToNobody ==
    /\ Quiescent
    /\ response = [code |-> 201, message |-> "Friend request sent successfully"]
    /\ friendRequests[1] = friendRequestSchema(toString(1), toString(Ghost))
    /\ nextRequestId = 2

(***************************************************************************)
(* C18.                                                                    *)
(***************************************************************************)
\* C18: every step that puts B into A.friends is a step of a resolveRequest
\* with status accepted on a request between A and B that was pending as the
\* call loaded it; a resolveRequest that loaded its request not pending changes
\* no record and is not answered 200.
C18_FriendsOnlyFromPending ==
    [][/\ \A a \in UserIds, b \in UserIds :
            (~Lists(a, b) /\ Lists(a, b)') =>
                \E call \in Running :
                    /\ call.race = "none" /\ call.request.status = "accepted"
                    /\ {call.request.fromUser, call.request.toUser} = {a, b}
                    /\ \/ ResolveRequestAddToSender(call, TRUE)
                       \/ ResolveRequestAddToReceiver(call, TRUE)
       /\ \A call \in Running :
            (/\ call.op = "resolveRequest" /\ call.race = ""
             /\ \/ ResolveRequestSave(call, TRUE)
                \/ ResolveRequestAddToSender(call, TRUE)
                \/ ResolveRequestAddToReceiver(call, TRUE))
                => UNCHANGED store /\ response'.code # 200]_vars

\* C18, the case reached: the only request ever sent was accepted and the
\* friendship removed since; a resolveRequest that loaded the record accepted,
\* the only call in flight, has put the receiver into the sender's friends.
C18_FriendshipRestored ==
    /\ nextRequestId = 2
    /\ friendRequests[1].found /\ friendRequests[1].status = "accepted"
    /\ \E call \in Running :
        /\ calls = One(call)
        /\ call.op = "resolveRequest" /\ call.pc = "addToReceiver"
        /\ call.race = "" /\ ~call.modified /\ call.requestId = 1
        /\ call.request.fromUser # call.request.toUser
        /\ Lists(call.request.fromUser, call.request.toUser)
        /\ ~Lists(call.request.toUser, call.request.fromUser)

(***************************************************************************)
(* C19.                                                                    *)
(***************************************************************************)
\* C19: with the routes as Express dispatches them, in every reachable state the
\* outgoingRequests and the incomingRequests of every user are empty, and
\* queryStatus returns pending for no pair of users.
C19_ArraysStayEmpty ==
    /\ \A u \in UserIds :
        users[u].outgoingRequests = <<>> /\ users[u].incomingRequests = <<>>
    /\ \A a \in UserIds, b \in UserIds :
        CheckStatus(toString(a), toString(b)) # "pending"

\* C19, the case reached: two requests have been sent with answer 201 and one of
\* them rejected since; the other is pending, the arrays of both its users are
\* empty and queryStatus of the pair is none.
C19_PendingRecordEmptyArrays ==
    /\ Quiescent
    /\ nextRequestId = 3
    /\ friendRequests[1].status = "rejected"
    /\ friendRequests[2] = friendRequestSchema(toString(1), toString(2))
    /\ \A u \in {1, 2} :
        users[u].outgoingRequests = <<>> /\ users[u].incomingRequests = <<>>
    /\ CheckStatus(toString(1), toString(2)) = "none"

(***************************************************************************)
(* C20.                                                                    *)
(***************************************************************************)
\* C20: in every reachable state at most one friend-request record with status
\* pending is stored for each ordered pair (fromUser, toUser).
C20_OnePendingPerPair ==
    \A a \in UserIds, b \in UserIds : Cardinality(PendingRecords(a, b)) <= 1

\* C20, the case reached: a resolveRequest with status pending has been
\* answered 200, and two pending records 1 -> 2 are stored.
C20_PendingAgain ==
    /\ Quiescent
    /\ response = [code |-> 200, message |-> "Friend request pending"]
    /\ Cardinality(PendingRecords(1, 2)) = 2

====
